---------------------------- MODULE Spec2Model ----------------------------
(***************************************************************************)
(* Voxel terrain streaming of bevy_voxel_game.                             *)
(*                                                                         *)
(* src/src/main.rs : WorldMap store, generate_chunk, update_visible_chunks, *)
(*                   spawn_chunk / add_cube_to_mesh, player_movement,      *)
(*                   check_collision.                                      *)
(* src/src/f.rs    : the column-only variant (setup, generate_chunks,      *)
(*                   spawn_chunk, add_cube).                               *)
(*                                                                         *)
(* Vectors (Vec3, IVec3) are triples <<x, y, z>>.  An f32 is held as an    *)
(* integer number of units of 2^-22 (Scale units make 1.0); F32Round       *)
(* rounds a sum to the 24 significant bits an f32 keeps.                   *)
(* Vec<Vec<Vec<bool>>> is a sequence (x) of sequences (y) of rows; a row,   *)
(* the innermost Vec<bool> along z, is held as the integer whose bit z is  *)
(* chunk[x][y][z].  The Rust index i of a Vec is the TLA+ index i + 1.     *)
(***************************************************************************)
EXTENDS Integers, Sequences, FiniteSets, TLC

VARIABLES
    program,       \* which binary runs: "main.rs" or "f.rs"
    translation,   \* Transform.translation of the Player entity (f32 units)
    chunks,        \* main.rs: WorldMap.chunks, IVec3 -> Vec<Vec<Vec<bool>>>
    entities,      \* the Chunk render entities, a bag of entity records
    commands,      \* the despawn and spawn commands queued in the current frame
    pending,       \* the Update systems still to run in the current frame
    frame,         \* number of completed frames
    crashed,       \* the process has panicked
    gen_runs,      \* main.rs: number of generate_chunk executions per coordinate
    tick,          \* what the last streaming tick read and queued
    move,          \* what the last player_movement computed
    gen_chunk_pos, \* generate_chunk / spawn_chunk: the argument chunk_pos
    gen_chunk,     \* generate_chunk: the grid returned (<<>> before the return)
    cursor,        \* spawn_chunk: the position of the mesh loops
    vertices,      \* spawn_chunk: the vertex buffer
    indices,       \* spawn_chunk: the index buffer
    normals        \* spawn_chunk: the normal buffer

stream_vars == <<program, translation, chunks, entities, commands, pending, frame, crashed,
                 gen_runs, tick, move>>

gen_vars == <<gen_chunk_pos, gen_chunk>>

mesh_buffers == <<vertices, indices, normals>>

mesh_vars == <<cursor, mesh_buffers>>

vars == <<stream_vars, gen_vars, mesh_vars>>

----------------------------------------------------------------------------
(* Program constants *)

CHUNK_SIZE == 16

RENDER_DISTANCE == 3

WORLD_SIZE == 4

(* Bounds of the model *)

\* Frames run by the streaming specification
MaxFrames == 3

\* generate_chunk is called for chunk coordinates within MaxGen of the origin
MaxGen == 2

\* Cubes a mesh build emits before the model stops following it
MaxCubes == 3

----------------------------------------------------------------------------
(* f32 arithmetic on fixed-point units *)

Scale == 2^22

Abs(v) == IF v < 0 THEN -v ELSE v

Sign(v) == IF v < 0 THEN -1 ELSE 1

\* The spacing of f32 values around magnitude a: 1 unit while a has at most
\* 24 significant bits, doubling with each further bit.
RECURSIVE F32Ulp(_, _)
F32Ulp(a, u) == IF a \div u < 2^24 THEN u ELSE F32Ulp(a, 2 * u)

\* Round to nearest f32, ties to the even mantissa.
F32Round(v) ==
    LET a == Abs(v)
        u == F32Ulp(a, 1)
        q == a \div u
        r == a % u
        n == IF 2 * r > u \/ (2 * r = u /\ q % 2 = 1) THEN q + 1 ELSE q
    IN  Sign(v) * n * u

\* f32 + f32
F32Add(a, b) == F32Round(a + b)

\* (x / n as f32).floor() as i32, n a power of two (the division is exact)
F32DivFloor(v, n) == v \div (n * Scale)

\* x % n as f32: the truncated remainder, with the sign of x, exact
F32Rem(v, n) ==
    LET m == Abs(v) % (n * Scale)
    IN  IF v < 0 THEN -m ELSE m

\* f32::rem_euclid: let r = self % rhs; if r < 0.0 { r + rhs.abs() } else { r }
\* The sum r + rhs is an f32 sum and is rounded.
F32RemEuclid(v, n) ==
    LET r == F32Rem(v, n)
    IN  IF r < 0 THEN F32Add(r, Abs(n) * Scale) ELSE r

\* x as i32: truncation toward zero
F32AsI32(v) == IF v < 0 THEN -((-v) \div Scale) ELSE v \div Scale

\* i32 as f32, for the magnitudes of the model (below 2^24)
I32AsF32(n) == n * Scale

----------------------------------------------------------------------------
(* IVec3 helpers *)

Max2(a, b) == IF a > b THEN a ELSE b

\* (a - b).abs().max_element()
Chebyshev(a, b) ==
    Max2(Abs(a[1] - b[1]), Max2(Abs(a[2] - b[2]), Abs(a[3] - b[3])))

VecAdd(a, b) == <<a[1] + b[1], a[2] + b[2], a[3] + b[3]>>

\* The offsets visited by the three nested loops -r..=r
Offsets(r) == {<<x, y, z>> : x \in -r..r, y \in -r..r, z \in -r..r}

(* Bags: functions from elements to positive counts *)

EmptyBag == <<>>

Count(b, e) == IF e \in DOMAIN b THEN b[e] ELSE 0

BagPlus(a, b) == [e \in DOMAIN a \cap DOMAIN b |-> a[e] + b[e]] @@ a @@ b

BagOfSet(S) == [e \in S |-> 1]

BagSize(b) ==
    LET RECURSIVE Sum(_)
        Sum(S) == IF S = {} THEN 0
                  ELSE LET e == CHOOSE x \in S : TRUE IN b[e] + Sum(S \ {e})
    IN  Sum(DOMAIN b)

----------------------------------------------------------------------------
(* Terrain *)

\* perlin.get([wx * 0.01, wz * 0.01]) * 32.0 of the noise crate, an external
\* collaborator whose values are not in the repository.  A fixed function
\* with what gradient noise sampled every 0.01 has around the lattice origin
\* stands for it: 0 at the origin, one voxel of change over four columns,
\* and within -8..8.
Perlin32(world_x, world_z) ==
    LET ramp == (world_x + world_z) \div 4
    IN  IF ramp > 8 THEN 8 ELSE IF ramp < -8 THEN -8 ELSE ramp

\* (perlin.get(..) * 32.0 + 32.0) as i32
height(world_x, world_z) == Perlin32(world_x, world_z) + 32

Locals == 1..CHUNK_SIZE

\* The integer holding a Vec<bool>: bit i - 1 is element i of the first n
RECURSIVE Pack(_, _)
Pack(row, n) ==
    IF n = 0 THEN 0
    ELSE Pack(row, n - 1) + (IF row[n] THEN 2^(n - 1) ELSE 0)

\* row[z] of a packed Vec<bool>
Bit(row, z) == (row \div 2^z) % 2 = 1

\* chunk[x as usize][y as usize][z as usize]
Voxel(grid, x, y, z) == Bit(grid[x + 1][y + 1], z)

\* generate_chunk with world_y <= height in place of world_y < height
generate_chunk_le(chunk_pos) ==
    [x \in Locals |-> [y \in Locals |->
        Pack([z \in Locals |->
                chunk_pos[2] * CHUNK_SIZE + (y - 1)
                    <= height(chunk_pos[1] * CHUNK_SIZE + (x - 1),
                              chunk_pos[3] * CHUNK_SIZE + (z - 1))],
             CHUNK_SIZE)]]

\* generate_chunk: the grid starts all false; per (x, z) column the height is
\* taken once, and chunk[x][y][z] is set where world_y < height.
generate_chunk(chunk_pos) ==
    [x \in Locals |-> [y \in Locals |->
        Pack([z \in Locals |->
                chunk_pos[2] * CHUNK_SIZE + (y - 1)
                    < height(chunk_pos[1] * CHUNK_SIZE + (x - 1),
                             chunk_pos[3] * CHUNK_SIZE + (z - 1))],
             CHUNK_SIZE)]]

----------------------------------------------------------------------------
(* Collision query *)

\* (p / CHUNK_SIZE as f32).floor() as i32 per axis
ChunkOfPoint(position) ==
    <<F32DivFloor(position[1], CHUNK_SIZE),
      F32DivFloor(position[2], CHUNK_SIZE),
      F32DivFloor(position[3], CHUNK_SIZE)>>

\* local_pos of check_collision: rem_euclid(CHUNK_SIZE as f32) as i32
LocalIndex(w) == F32AsI32(F32RemEuclid(w, CHUNK_SIZE))

LocalOfPoint(position) ==
    <<LocalIndex(position[1]), LocalIndex(position[2]), LocalIndex(position[3])>>

\* Indexing a Vec of CHUNK_SIZE elements panics outside 0..CHUNK_SIZE-1
InBounds(i) == i \in 0..(CHUNK_SIZE - 1)

\* check_collision treating a chunk without entry as solid
check_collision_solid_miss(world_map, position) ==
    LET chunk_pos == ChunkOfPoint(position)
        local_pos == LocalOfPoint(position)
    IN  IF chunk_pos \in DOMAIN world_map
        THEN IF InBounds(local_pos[1]) /\ InBounds(local_pos[2]) /\ InBounds(local_pos[3])
             THEN IF Voxel(world_map[chunk_pos], local_pos[1], local_pos[2], local_pos[3])
                  THEN "true" ELSE "false"
             ELSE "panic"
        ELSE "true"

\* check_collision: "false" on a miss; on a hit the occupancy bit, or "panic"
\* when an index is out of bounds.
check_collision(world_map, position) ==
    LET chunk_pos == ChunkOfPoint(position)
        local_pos == LocalOfPoint(position)
    IN  IF chunk_pos \in DOMAIN world_map
        THEN IF InBounds(local_pos[1]) /\ InBounds(local_pos[2]) /\ InBounds(local_pos[3])
             THEN IF Voxel(world_map[chunk_pos], local_pos[1], local_pos[2], local_pos[3])
                  THEN "true" ELSE "false"
             ELSE "panic"
        ELSE "false"

----------------------------------------------------------------------------
(* The frame loop: each Update system runs once per frame, in either order; *)
(* the commands the systems queued are applied when the schedule ends.      *)

Systems == {"player_movement", "streaming"}

\* A system of the Update schedule has run
Ran(system) ==
    pending' = pending \ {system} /\ frame' = frame

CanRun(prog, system) ==
    program = prog /\ ~crashed /\ frame < MaxFrames /\ system \in pending

\* Commands: nothing queued
NoCommands == [despawn |-> EmptyBag, spawn |-> EmptyBag]

NoTick == [ran |-> FALSE]

NoMove == [ran |-> FALSE]

\* translation + displacement, an f32 sum per axis
Moved(position, displacement) ==
    <<F32Add(position[1], displacement[1]),
      F32Add(position[2], displacement[2]),
      F32Add(position[3], displacement[3])>>

\* The chunk coordinates the loops -r..=r visit around player_chunk
Desired(player_chunk, r) == {VecAdd(player_chunk, o) : o \in Offsets(r)}

\* OutOfRange with >= r in place of > r
OutOfRange_Ge(ents, player_chunk, r) ==
    [e \in {x \in DOMAIN ents : Chebyshev(x.position, player_chunk) >= r} |-> ents[e]]

\* The entities of the query farther than r from player_chunk
OutOfRange(ents, player_chunk, r) ==
    [e \in {x \in DOMAIN ents : Chebyshev(x.position, player_chunk) > r} |-> ents[e]]

\* The entities left once the despawn commands are applied
Despawn(ents, removed) == [e \in DOMAIN ents \ DOMAIN removed |-> ents[e]]

----------------------------------------------------------------------------
(* main.rs *)

\* Candidate displacements direction * 5.0 * delta_seconds of one tick: none,
\* a full chunk down or up, and the smallest step along -x.
Displacements ==
    { <<0, 0, 0>>,
      <<0, -I32AsF32(CHUNK_SIZE), 0>>,
      <<0, I32AsF32(CHUNK_SIZE), 0>>,
      <<-1, 0, 0>> }

\* The displacement is shorter than one chunk on every axis
UnderChunk(displacement) ==
    \A i \in 1..3 : Abs(displacement[i]) < I32AsF32(CHUNK_SIZE)

\* setup: the camera at (0.0, 50.0, 0.0)
StartTranslation == <<0, I32AsF32(50), 0>>

\* The candidate displacements of a tick at position: the keys and the frame
\* time are free whatever the position
Inputs(position) == Displacements

\* generate_chunk is a pure function of chunk_pos (Perlin::new(0) is built
\* anew in each call): its results for the chunks around the start are
\* evaluated once, and the call in update_visible_chunks reads them.
Region ==
    UNION { Desired(VecAdd(ChunkOfPoint(StartTranslation), <<x, y, 0>>), RENDER_DISTANCE) :
              x \in -1..0, y \in -MaxFrames..MaxFrames }

Generated == [c \in Region |-> generate_chunk(c)]

GenerateChunkAt(chunk_pos) ==
    IF chunk_pos \in Region THEN Generated[chunk_pos] ELSE generate_chunk(chunk_pos)

\* world_map.chunks.insert(chunk_pos, generate_chunk(chunk_pos)) for every
\* coordinate of new: the inserted grid replaces the one under the same key
Insert(world_map, new) == [c \in new |-> GenerateChunkAt(c)] @@ world_map

\* setup and init_resource: an empty WorldMap, no Chunk entity
MainInit ==
    /\ program = "main.rs"
    /\ translation = StartTranslation
    /\ chunks = <<>>
    /\ entities = EmptyBag
    /\ commands = NoCommands
    /\ pending = Systems
    /\ frame = 0
    /\ crashed = FALSE
    /\ gen_runs = EmptyBag
    /\ tick = NoTick
    /\ move = NoMove

\* spawn_chunk: the entity spawned for chunk_pos
ChunkEntity(chunk_pos) ==
    [position |-> chunk_pos,
     transform |-> <<I32AsF32(chunk_pos[1]) * CHUNK_SIZE,
                     I32AsF32(chunk_pos[2]) * CHUNK_SIZE,
                     I32AsF32(chunk_pos[3]) * CHUNK_SIZE>>]

\* ToGenerate without the contains_key test
ToGenerate_NoContainsKey(world_map, player_chunk) ==
    Desired(player_chunk, RENDER_DISTANCE)

\* ToGenerate with the exclusive loops -RENDER_DISTANCE..RENDER_DISTANCE
ToGenerate_Exclusive(world_map, player_chunk) ==
    {VecAdd(player_chunk, <<x, y, z>>) :
        x \in -RENDER_DISTANCE..(RENDER_DISTANCE - 1),
        y \in -RENDER_DISTANCE..(RENDER_DISTANCE - 1),
        z \in -RENDER_DISTANCE..(RENDER_DISTANCE - 1)} \ DOMAIN world_map

\* The coordinates of the spawn loop that pass
\* !world_map.chunks.contains_key(&chunk_pos)
ToGenerate(world_map, player_chunk) ==
    Desired(player_chunk, RENDER_DISTANCE) \ DOMAIN world_map

\* update_visible_chunks without world_map.chunks.insert
update_visible_chunks_no_insert ==
    /\ CanRun("main.rs", "streaming")
    /\ LET player_chunk == ChunkOfPoint(translation)
           chunks_to_remove == OutOfRange(entities, player_chunk, RENDER_DISTANCE)
           new == ToGenerate(chunks, player_chunk)
           spawned == BagOfSet({ChunkEntity(c) : c \in new})
       IN  /\ chunks' = chunks
           /\ gen_runs' = BagPlus(gen_runs, BagOfSet(new))
           /\ commands' = [despawn |-> BagPlus(commands.despawn, chunks_to_remove),
                           spawn |-> BagPlus(commands.spawn, spawned)]
           /\ tick' = [ran |-> TRUE, player_chunk |-> player_chunk,
                       before |-> entities, resident |-> DOMAIN chunks,
                       despawned |-> chunks_to_remove, spawned |-> spawned]
    /\ Ran("streaming")
    /\ UNCHANGED <<program, translation, entities, crashed, move, gen_vars, mesh_vars>>

\* update_visible_chunks removing the grid of every despawned entity
update_visible_chunks_pruning ==
    /\ CanRun("main.rs", "streaming")
    /\ LET player_chunk == ChunkOfPoint(translation)
           chunks_to_remove == OutOfRange(entities, player_chunk, RENDER_DISTANCE)
           new == ToGenerate(chunks, player_chunk)
           spawned == BagOfSet({ChunkEntity(c) : c \in new})
           pruned == {e.position : e \in DOMAIN chunks_to_remove}
       IN  /\ chunks' = Insert([c \in DOMAIN chunks \ pruned |-> chunks[c]], new \ pruned)
           /\ gen_runs' = BagPlus(gen_runs, BagOfSet(new))
           /\ commands' = [despawn |-> BagPlus(commands.despawn, chunks_to_remove),
                           spawn |-> BagPlus(commands.spawn, spawned)]
           /\ tick' = [ran |-> TRUE, player_chunk |-> player_chunk,
                       before |-> entities, resident |-> DOMAIN chunks,
                       despawned |-> chunks_to_remove, spawned |-> spawned]
    /\ Ran("streaming")
    /\ UNCHANGED <<program, translation, entities, crashed, move, gen_vars, mesh_vars>>

update_visible_chunks ==
    /\ CanRun("main.rs", "streaming")
    /\ LET player_chunk == ChunkOfPoint(translation)
           chunks_to_remove == OutOfRange(entities, player_chunk, RENDER_DISTANCE)
           new == ToGenerate(chunks, player_chunk)
           spawned == BagOfSet({ChunkEntity(c) : c \in new})
       IN  /\ chunks' = Insert(chunks, new)
           /\ gen_runs' = BagPlus(gen_runs, BagOfSet(new))
           /\ commands' = [despawn |-> BagPlus(commands.despawn, chunks_to_remove),
                           spawn |-> BagPlus(commands.spawn, spawned)]
           /\ tick' = [ran |-> TRUE, player_chunk |-> player_chunk,
                       before |-> entities, resident |-> DOMAIN chunks,
                       despawned |-> chunks_to_remove, spawned |-> spawned]
    /\ Ran("streaming")
    /\ UNCHANGED <<program, translation, entities, crashed, move, gen_vars, mesh_vars>>

\* player_movement committing the candidate whatever check_collision returns
player_movement_unchecked(displacement) ==
    /\ CanRun("main.rs", "player_movement")
    /\ LET new_position == Moved(translation, displacement)
           hit == check_collision(chunks, new_position)
       IN  /\ translation' = new_position
           /\ crashed' = (hit = "panic")
           /\ move' = [ran |-> TRUE, from |-> translation, candidate |-> new_position,
                       probes |-> <<new_position>>, hit |-> hit,
                       miss |-> ChunkOfPoint(new_position) \notin DOMAIN chunks,
                       under_chunk |-> (move.ran => move.under_chunk)
                                          /\ UnderChunk(displacement)]
    /\ Ran("player_movement")
    /\ UNCHANGED <<program, chunks, entities, commands, gen_runs, tick,
                   gen_vars, mesh_vars>>

player_movement(displacement) ==
    /\ CanRun("main.rs", "player_movement")
    /\ LET new_position == Moved(translation, displacement)
           hit == check_collision(chunks, new_position)
       IN  /\ translation' = IF hit = "false" THEN new_position ELSE translation
           /\ crashed' = (hit = "panic")
           /\ move' = [ran |-> TRUE, from |-> translation, candidate |-> new_position,
                       probes |-> <<new_position>>, hit |-> hit,
                       miss |-> ChunkOfPoint(new_position) \notin DOMAIN chunks,
                       under_chunk |-> (move.ran => move.under_chunk)
                                          /\ UnderChunk(displacement)]
    /\ Ran("player_movement")
    /\ UNCHANGED <<program, chunks, entities, commands, gen_runs, tick,
                   gen_vars, mesh_vars>>

----------------------------------------------------------------------------
(* f.rs *)

\* The rotation setup leaves, looking_at(Vec3::ZERO, Vec3::Y) from
\* (0, 20, 0), is never written again: forward is straight down, and left
\* and right are along z.
FForward == <<0, -1, 0>>

FBack == <<0, 1, 0>>

FLeft == <<0, 0, 1>>

FRight == <<0, 0, -1>>

\* direction of one held key (or none), already of length 1 or 0
FDirections ==
    { <<0, 0, 0>>, FForward, FBack, FLeft, FRight, <<0, 1, 0>>, <<0, -1, 0>> }

\* speed * delta_seconds in f32 units: frames of 6.4 s, four chunks
FSteps == {I32AsF32(64)}

\* Candidate displacements direction.normalize_or_zero() * speed *
\* delta_seconds of one tick
FDisplacements ==
    { <<d[1] * k, d[2] * k, d[3] * k>> : d \in FDirections, k \in FSteps }

\* f.rs setup: the camera at (0.0, 20.0, 0.0)
FStartTranslation == <<0, I32AsF32(20), 0>>

\* f.rs spawn_chunk: the entity spawned for position
FChunkEntity(position) ==
    [position |-> position,
     transform |-> <<I32AsF32(position[1] * CHUNK_SIZE), 0,
                     I32AsF32(position[3] * CHUNK_SIZE)>>]

\* f.rs setup: for x in -WORLD_SIZE..WORLD_SIZE, z likewise, at y = 0
FSetupChunks ==
    {<<x, 0, z>> : x \in -WORLD_SIZE..(WORLD_SIZE - 1), z \in -WORLD_SIZE..(WORLD_SIZE - 1)}

FInit ==
    /\ program = "f.rs"
    /\ translation = FStartTranslation
    /\ chunks = <<>>
    /\ entities = BagOfSet({FChunkEntity(c) : c \in FSetupChunks})
    /\ commands = NoCommands
    /\ pending = Systems
    /\ frame = 0
    /\ crashed = FALSE
    /\ gen_runs = EmptyBag
    /\ tick = NoTick
    /\ move = NoMove

\* (translation / (CHUNK_SIZE as f32)).as_ivec3(): the exact quotient,
\* truncated toward zero
F32DivTrunc(v, n) ==
    IF v < 0 THEN -((-v) \div (n * Scale)) ELSE v \div (n * Scale)

FChunkOfPoint(position) ==
    <<F32DivTrunc(position[1], CHUNK_SIZE),
      F32DivTrunc(position[2], CHUNK_SIZE),
      F32DivTrunc(position[3], CHUNK_SIZE)>>

\* FToSpawn without the test on chunk_query
FToSpawn_All(ents, player_chunk) ==
    { VecAdd(player_chunk, <<x, 0, z>>) : x \in -WORLD_SIZE..WORLD_SIZE,
                                          z \in -WORLD_SIZE..WORLD_SIZE }

\* The positions of the spawn loop, player_chunk + IVec3::new(x, 0, z), for
\* which no entity of the query has that position
FToSpawn(ents, player_chunk) ==
    { VecAdd(player_chunk, <<x, 0, z>>) : x \in -WORLD_SIZE..WORLD_SIZE,
                                          z \in -WORLD_SIZE..WORLD_SIZE }
        \ { e.position : e \in DOMAIN ents }

generate_chunks ==
    /\ CanRun("f.rs", "streaming")
    /\ LET player_chunk == FChunkOfPoint(translation)
           removed == OutOfRange(entities, player_chunk, WORLD_SIZE)
           spawned == BagOfSet({FChunkEntity(c) : c \in FToSpawn(entities, player_chunk)})
       IN  /\ commands' = [despawn |-> BagPlus(commands.despawn, removed),
                           spawn |-> BagPlus(commands.spawn, spawned)]
           /\ tick' = [ran |-> TRUE, player_chunk |-> player_chunk,
                       before |-> entities, resident |-> {},
                       despawned |-> removed, spawned |-> spawned]
    /\ Ran("streaming")
    /\ UNCHANGED <<program, translation, chunks, entities, crashed, gen_runs, move,
                   gen_vars, mesh_vars>>

\* f.rs player_movement: translation += direction * speed * delta_seconds
f_player_movement(displacement) ==
    /\ CanRun("f.rs", "player_movement")
    /\ translation' = Moved(translation, displacement)
    /\ move' = [ran |-> TRUE, from |-> translation,
                candidate |-> Moved(translation, displacement),
                probes |-> <<>>, hit |-> "false", miss |-> TRUE,
                under_chunk |-> (move.ran => move.under_chunk)
                                   /\ UnderChunk(displacement)]
    /\ Ran("player_movement")
    /\ UNCHANGED <<program, chunks, entities, commands, crashed, gen_runs, tick,
                   gen_vars, mesh_vars>>

----------------------------------------------------------------------------
(* Both binaries *)

NoCall ==
    /\ gen_chunk_pos = <<0, 0, 0>>
    /\ gen_chunk = <<>>

NoMesh ==
    /\ cursor = <<>>
    /\ vertices = <<>>
    /\ indices = <<>>
    /\ normals = <<>>

\* The end of the Update schedule: the queued commands are applied, despawns
\* and spawns, and the next frame starts.
apply_deferred ==
    /\ program \in {"main.rs", "f.rs"}
    /\ ~crashed
    /\ pending = {}
    /\ entities' = BagPlus(Despawn(entities, commands.despawn), commands.spawn)
    /\ commands' = NoCommands
    /\ pending' = Systems
    /\ frame' = frame + 1
    /\ UNCHANGED <<program, translation, chunks, crashed, gen_runs, tick, move,
                   gen_vars, mesh_vars>>

Init == (MainInit \/ FInit) /\ NoCall /\ NoMesh

Next ==
    \/ apply_deferred
    \/ update_visible_chunks
    \/ \E d \in Inputs(translation) : player_movement(d)
    \/ generate_chunks
    \/ \E d \in FDisplacements : f_player_movement(d)

Spec == Init /\ [][Next]_vars

----------------------------------------------------------------------------
(* generate_chunk called on its own *)

GenCoords ==
    {<<x, y, z>> : x \in -MaxGen..MaxGen, y \in -MaxGen..MaxGen, z \in -MaxGen..MaxGen}

Idle(prog) ==
    /\ program = prog
    /\ translation = StartTranslation
    /\ chunks = <<>>
    /\ entities = EmptyBag
    /\ commands = NoCommands
    /\ pending = Systems
    /\ frame = 0
    /\ crashed = FALSE
    /\ gen_runs = EmptyBag
    /\ tick = NoTick
    /\ move = NoMove

GenInit ==
    /\ Idle("generate_chunk")
    /\ gen_chunk_pos \in GenCoords
    /\ gen_chunk = <<>>
    /\ NoMesh

GenReturn ==
    /\ program = "generate_chunk"
    /\ gen_chunk = <<>>
    /\ gen_chunk' = generate_chunk(gen_chunk_pos)
    /\ UNCHANGED <<stream_vars, gen_chunk_pos, mesh_vars>>

GenNext == GenReturn

GenSpec == GenInit /\ [][GenNext]_vars

----------------------------------------------------------------------------
(* Mesh building: the loops of spawn_chunk, one iteration per step *)

\* x as f32 and x + 1.0
Corner(v) == <<I32AsF32(v[1]), I32AsF32(v[2]), I32AsF32(v[3])>>

\* The eight entries of cube_vertices (main.rs) and of the vertex slice
\* (f.rs), which are the same
CubeVertices(p) ==
    LET x == p[1]  y == p[2]  z == p[3]
        x1 == F32Add(x, I32AsF32(1))
        y1 == F32Add(y, I32AsF32(1))
        z1 == F32Add(z, I32AsF32(1))
    IN  << <<x, y, z>>, <<x1, y, z>>, <<x1, y1, z>>, <<x, y1, z>>,
           <<x, y, z1>>, <<x1, y, z1>>, <<x1, y1, z1>>, <<x, y1, z1>> >>

\* main.rs cube_indices
CubeIndices ==
    << 0, 1, 2, 2, 3, 0,
       1, 5, 6, 6, 2, 1,
       5, 4, 7, 7, 6, 5,
       4, 0, 3, 3, 7, 4,
       3, 2, 6, 6, 7, 3,
       4, 5, 1, 1, 0, 4 >>

\* main.rs cube_normals
CubeNormals ==
    << <<0, 0, -1>>, <<1, 0, 0>>, <<0, 0, 1>>,
       <<-1, 0, 0>>, <<0, 1, 0>>, <<0, -1, 0>> >>

\* iter().flat_map(|&n| std::iter::repeat(n).take(k)): each element k times
RepeatEach(seq, k) ==
    [i \in 1..(Len(seq) * k) |-> seq[((i - 1) \div k) + 1]]

\* vertices.len() as u32 and the u32 sums below stay under
\* 8 * CHUNK_SIZE^3 + 8: no wrap-around.

\* main.rs add_cube_to_mesh on the three buffers
add_cube_to_mesh(mesh, position) ==
    LET start_index == Len(mesh.vertices)
    IN  [vertices |-> mesh.vertices \o CubeVertices(position),
         indices |-> mesh.indices
                       \o [i \in 1..Len(CubeIndices) |-> CubeIndices[i] + start_index],
         normals |-> mesh.normals \o RepeatEach(CubeNormals, 4)]

\* f.rs add_cube: the offsets added to v_index, and the eight normals
FCubeOffsets ==
    << 0, 1, 2, 0, 2, 3,
       5, 4, 7, 5, 7, 6,
       4, 0, 3, 4, 3, 7,
       1, 5, 6, 1, 6, 2,
       3, 2, 6, 3, 6, 7,
       4, 5, 1, 4, 1, 0 >>

FCubeNormals ==
    << <<0, 0, -1>>, <<0, 0, -1>>, <<0, 0, -1>>, <<0, 0, -1>>,
       <<0, 0, 1>>, <<0, 0, 1>>, <<0, 0, 1>>, <<0, 0, 1>> >>

add_cube(mesh, x, y, z) ==
    LET v_index == Len(mesh.vertices)
    IN  [vertices |-> mesh.vertices \o CubeVertices(Corner(<<x, y, z>>)),
         indices |-> mesh.indices
                       \o [i \in 1..Len(FCubeOffsets) |-> v_index + FCubeOffsets[i]],
         normals |-> mesh.normals \o FCubeNormals]

\* f.rs: noise.get([wx * 0.02, wz * 0.02]) * 10.0, a fixed deterministic
\* function standing for the noise crate, 0 at the origin
FPerlin10(world_x, world_z) == ((world_x + 2 * world_z + 2) % 5) * 5 - 10

\* f.rs: (noise.get(..) * 10.0 + 10.0) as i32
FHeight(world_x, world_z) == FPerlin10(world_x, world_z) + 10

\* f.rs spawn_chunk: the height of local column (x, z) of the chunk at position
FColumnHeight(position, x, z) ==
    FHeight(position[1] * CHUNK_SIZE + x, position[3] * CHUNK_SIZE + z)

Mesh == [vertices |-> vertices, indices |-> indices, normals |-> normals]

SetMesh(mesh) ==
    /\ vertices' = mesh.vertices
    /\ indices' = mesh.indices
    /\ normals' = mesh.normals

\* The loop variables after one more iteration of the innermost loop
\* (0..CHUNK_SIZE each, the first one outermost)
Advance(c) ==
    IF c[3] + 1 < CHUNK_SIZE THEN <<c[1], c[2], c[3] + 1>>
    ELSE IF c[2] + 1 < CHUNK_SIZE THEN <<c[1], c[2] + 1, 0>>
    ELSE <<c[1] + 1, 0, 0>>

\* f.rs: the loop variables <<x, z, y>> at the start of the next (x, z) column
NextColumn(c) ==
    IF c[2] + 1 < CHUNK_SIZE THEN <<c[1], c[2] + 1, 0>> ELSE <<c[1] + 1, 0, 0>>

\* The chunks whose mesh is built: solid and partly solid ones
MeshCoords == {<<x, y, z>> : x \in -1..1, y \in 1..2, z \in -1..1}

FMeshCoords == {<<x, 0, z>> : x \in -1..1, z \in -1..1}

MeshInit ==
    /\ \/ Idle("main.rs") /\ gen_chunk_pos \in MeshCoords
       \/ Idle("f.rs") /\ gen_chunk_pos \in FMeshCoords
    /\ gen_chunk = <<>>
    /\ cursor = <<0, 0, 0>>
    /\ vertices = <<>>
    /\ indices = <<>>
    /\ normals = <<>>

Emitted == Len(vertices) \div 8

\* main.rs spawn_chunk, one iteration of for x / for y / for z over
\* chunk_data = generate_chunk(chunk_pos); cursor is <<x, y, z>>
spawn_chunk_step ==
    /\ program = "main.rs"
    /\ cursor[1] < CHUNK_SIZE
    /\ Emitted < MaxCubes
    /\ LET chunk_data == generate_chunk(gen_chunk_pos)
       IN  IF Voxel(chunk_data, cursor[1], cursor[2], cursor[3])
           THEN SetMesh(add_cube_to_mesh(Mesh, Corner(cursor)))
           ELSE UNCHANGED mesh_buffers
    /\ cursor' = Advance(cursor)
    /\ UNCHANGED <<stream_vars, gen_vars>>

\* f.rs spawn_chunk, one iteration of for y in 0..height (or the step to the
\* next (x, z) column when y has reached height); cursor is <<x, z, y>>
f_spawn_chunk_step ==
    /\ program = "f.rs"
    /\ cursor[1] < CHUNK_SIZE
    /\ Emitted < MaxCubes
    /\ IF cursor[3] < FColumnHeight(gen_chunk_pos, cursor[1], cursor[2])
       THEN /\ SetMesh(add_cube(Mesh, cursor[1], cursor[3], cursor[2]))
            /\ cursor' = <<cursor[1], cursor[2], cursor[3] + 1>>
       ELSE /\ UNCHANGED mesh_buffers
            /\ cursor' = NextColumn(cursor)
    /\ UNCHANGED <<stream_vars, gen_vars>>

MeshNext == spawn_chunk_step \/ f_spawn_chunk_step

MeshSpec == MeshInit /\ [][MeshNext]_vars

----------------------------------------------------------------------------
(* Properties *)

RenderedCoords(ents) == {e.position : e \in DOMAIN ents}

\* The render distance of the running binary
Radius == IF program = "main.rs" THEN RENDER_DISTANCE ELSE WORLD_SIZE

\* The step is a run of player_movement
MoveStep ==
    "player_movement" \in pending /\ "player_movement" \notin pending'

\* floor of an f32
Floor(w) == w \div Scale

\* World coordinates and points probed: the smallest negative f32 of the
\* model, 0, -1.0, and far from every loaded chunk on either side
ProbeAxis == {-1, 0, -I32AsF32(1), I32AsF32(200), -I32AsF32(200)}

ProbePoints == {<<x, y, z>> : x \in ProbeAxis, y \in ProbeAxis, z \in ProbeAxis}

\* C1: main.rs, after each run of update_visible_chunks with observer chunk O,
\* its despawn and spawn commands applied (the frame has ended), the
\* coordinates with a rendered Chunk entity are exactly those within
\* Chebyshev distance RENDER_DISTANCE of O.
C1_RenderedIsDesired ==
    (program = "main.rs" /\ tick.ran /\ pending = Systems)
        => RenderedCoords(entities) = Desired(tick.player_chunk, RENDER_DISTANCE)

\* C2: main.rs, generate_chunk runs at most once per coordinate, and the grid
\* stored for a resident coordinate is the same after every step.
C2_GeneratedOnce ==
    [][program = "main.rs"
        => \A c \in DOMAIN chunks :
              /\ c \in DOMAIN chunks'
              /\ chunks'[c] = chunks[c]
              /\ Count(gen_runs', c) = 1]_vars

\* C2 witness: a second tick whose desired set overlaps the resident
\* coordinates, each still generated once.
C2_Witness ==
    /\ program = "main.rs"
    /\ tick.ran
    /\ tick.resident \cap Desired(tick.player_chunk, RENDER_DISTANCE) # {}
    /\ \A c \in tick.resident : Count(gen_runs, c) = 1

\* C3 as stated: main.rs, after a tick every resident coordinate is within
\* RENDER_DISTANCE of the observer's chunk and at most
\* (2 * RENDER_DISTANCE + 1)^3 grids are resident.
C3_ResidentWithinRange ==
    (program = "main.rs" /\ tick.ran /\ ChunkOfPoint(translation) = tick.player_chunk)
        => /\ \A c \in DOMAIN chunks :
                 Chebyshev(c, ChunkOfPoint(translation)) <= RENDER_DISTANCE
           /\ Cardinality(DOMAIN chunks) <= (2 * RENDER_DISTANCE + 1)^3

\* C3 amended: main.rs, the store is never pruned: after a tick the resident
\* coordinates are those resident before it together with every coordinate
\* within RENDER_DISTANCE of the observer's chunk.
C3_ResidentNeverPruned ==
    (program = "main.rs" /\ tick.ran)
        => DOMAIN chunks = tick.resident \cup Desired(tick.player_chunk, RENDER_DISTANCE)

\* C3 witness: a resident coordinate farther than RENDER_DISTANCE from the
\* observer's chunk, and more than (2 * RENDER_DISTANCE + 1)^3 grids.
C3_Witness ==
    /\ program = "main.rs"
    /\ tick.ran
    /\ ChunkOfPoint(translation) = tick.player_chunk
    /\ \E c \in DOMAIN chunks : Chebyshev(c, tick.player_chunk) > RENDER_DISTANCE
    /\ Cardinality(DOMAIN chunks) > (2 * RENDER_DISTANCE + 1)^3

\* C4: check_collision returns false, without failing, for every point whose
\* chunk has no entry in the store, the empty store included.
C4_MissIsFalse ==
    program = "main.rs"
        => /\ \A p \in ProbePoints :
                 ChunkOfPoint(p) \notin DOMAIN chunks
                    => check_collision(chunks, p) = "false"
           /\ (move.ran /\ move.miss) => move.hit = "false"

\* C4 witness: player_movement ran on the empty store, before the first tick,
\* and its candidate was accepted.
C4_Witness ==
    /\ program = "main.rs"
    /\ chunks = <<>>
    /\ move.ran /\ move.miss /\ move.hit = "false"
    /\ translation = move.candidate
    /\ move.candidate # move.from

\* C5: for the point check_collision looked up in a resident chunk, the local
\* index on each axis lies in 0..CHUNK_SIZE-1 and
\* chunk * CHUNK_SIZE + local = floor(w).
C5_LocalIsEuclideanRemainder ==
    (program = "main.rs" /\ move.ran /\ ~move.miss)
        => \A i \in 1..3 :
              LET w == move.candidate[i]
              IN  /\ InBounds(LocalIndex(w))
                  /\ ChunkOfPoint(move.candidate)[i] * CHUNK_SIZE + LocalIndex(w) = Floor(w)

\* C6: main.rs player_movement probes the candidate once; a solid candidate
\* leaves the translation as it was, a free one becomes the translation.
C6_MoveAllOrNothing ==
    [][(program = "main.rs" /\ MoveStep)
        => /\ move'.probes = <<move'.candidate>>
           /\ move'.from = translation
           /\ check_collision(chunks, move'.candidate) = "true"
                 => translation' = translation
           /\ check_collision(chunks, move'.candidate) = "false"
                 => translation' = move'.candidate]_vars

\* C6 witness: a move into a solid voxel was rejected.
C6_Witness ==
    /\ program = "main.rs"
    /\ move.ran /\ move.hit = "true"
    /\ move.candidate # move.from
    /\ translation = move.from

\* The iterations of the main.rs loops before cursor that met a solid voxel
SolidBefore ==
    Cardinality({v \in (0..(CHUNK_SIZE - 1)) \X (0..(CHUNK_SIZE - 1)) \X (0..(CHUNK_SIZE - 1)) :
        /\ \/ v[1] < cursor[1]
           \/ v[1] = cursor[1] /\ v[2] < cursor[2]
           \/ v[1] = cursor[1] /\ v[2] = cursor[2] /\ v[3] < cursor[3]
        /\ gen_chunk_pos[2] * CHUNK_SIZE + v[2]
              < height(gen_chunk_pos[1] * CHUNK_SIZE + v[1],
                       gen_chunk_pos[3] * CHUNK_SIZE + v[3])})

\* The iterations of the f.rs loops <<x, z, y>> before cursor
FCubesBefore ==
    Cardinality({v \in (0..(CHUNK_SIZE - 1)) \X (0..(CHUNK_SIZE - 1)) \X (0..(10 + 10)) :
        /\ \/ v[1] < cursor[1]
           \/ v[1] = cursor[1] /\ v[2] < cursor[2]
           \/ v[1] = cursor[1] /\ v[2] = cursor[2] /\ v[3] < cursor[3]
        /\ v[3] < FColumnHeight(gen_chunk_pos, v[1], v[2])})

\* C7: a mesh built from K cubes holds 8K vertices, 36K indices and 8K
\* normals, every index below the vertex count.
C7_BuffersParallel ==
    LET K == IF program = "main.rs" THEN SolidBefore ELSE FCubesBefore
    IN  cursor # <<>>
          => /\ Len(vertices) = 8 * K
             /\ Len(indices) = 36 * K
             /\ Len(normals) = 8 * K
             /\ \A i \in 1..Len(indices) : indices[i] \in 0..(Len(vertices) - 1)

\* C8: the grid generate_chunk returns for c has voxel [lx][ly][lz] solid
\* exactly when c.y * CHUNK_SIZE + ly < height(c.x * CHUNK_SIZE + lx,
\* c.z * CHUNK_SIZE + lz).
C8_Coverage ==
    gen_chunk # <<>>
        => \A lx \in 0..(CHUNK_SIZE - 1), ly \in 0..(CHUNK_SIZE - 1), lz \in 0..(CHUNK_SIZE - 1) :
              Voxel(gen_chunk, lx, ly, lz)
                 <=> (gen_chunk_pos[2] * CHUNK_SIZE + ly
                        < height(gen_chunk_pos[1] * CHUNK_SIZE + lx,
                                 gen_chunk_pos[3] * CHUNK_SIZE + lz))

\* C8 witness: a grid returned for a chunk with negative x and z that holds
\* both solid and empty voxels.
C8_Witness ==
    /\ gen_chunk # <<>>
    /\ gen_chunk_pos[1] < 0 /\ gen_chunk_pos[3] < 0
    /\ \E x \in Locals, y \in Locals, z \in Locals : Voxel(gen_chunk, x - 1, y - 1, z - 1)
    /\ \E x \in Locals, y \in Locals, z \in Locals : ~Voxel(gen_chunk, x - 1, y - 1, z - 1)

\* C9: main.rs, every coordinate of the desired set without a Chunk entity at
\* the start of a tick has one spawned in that tick.
C9_MissingAreSpawned ==
    (program = "main.rs" /\ tick.ran)
        => \A c \in Desired(tick.player_chunk, RENDER_DISTANCE) \ RenderedCoords(tick.before) :
              Count(tick.spawned, ChunkEntity(c)) = 1

\* C10: in a tick an entity is despawned, once, exactly when its coordinate is
\* farther than the render distance from the player chunk of that tick.
C10_DespawnIffOutOfRange ==
    tick.ran
        => /\ \A e \in DOMAIN tick.before :
                 Count(tick.despawned, e) =
                    IF Max2(Abs(e.position[1] - tick.player_chunk[1]),
                            Max2(Abs(e.position[2] - tick.player_chunk[2]),
                                 Abs(e.position[3] - tick.player_chunk[3]))) > Radius
                    THEN tick.before[e] ELSE 0
           /\ DOMAIN tick.despawned \subseteq DOMAIN tick.before
           /\ \A e \in DOMAIN tick.before :
                 Count(entities, e) >= tick.before[e] - Count(tick.despawned, e)

\* C10 witness: a tick despawned some entities and kept others, and its
\* commands are applied: the former are gone, the latter still rendered.
C10_Witness ==
    /\ tick.ran
    /\ pending = Systems
    /\ tick.despawned # EmptyBag
    /\ \A e \in DOMAIN tick.despawned : e \notin DOMAIN entities
    /\ \E e \in DOMAIN tick.before : e \notin DOMAIN tick.despawned /\ e \in DOMAIN entities

\* The step is a run of the streaming system
TickStep ==
    "streaming" \in pending /\ "streaming" \notin pending'

\* The centre of chunk c, a world point
CentreOf(c) ==
    <<I32AsF32(c[1] * CHUNK_SIZE + 8), I32AsF32(c[2] * CHUNK_SIZE + 8),
      I32AsF32(c[3] * CHUNK_SIZE + 8)>>

\* C11: main.rs, a tick that despawns render entities removes nothing from
\* WorldMap.chunks: every coordinate resident before it is resident after it
\* with the same grid, and check_collision answers for a point of a
\* derendered chunk as it did before the tick.
C11_DespawnKeepsStore ==
    [][(program = "main.rs" /\ TickStep /\ tick'.despawned # EmptyBag)
        => /\ \A c \in DOMAIN chunks :
                 c \in DOMAIN chunks' /\ chunks'[c] = chunks[c]
           /\ \A e \in DOMAIN tick'.despawned :
                 /\ e.position \in DOMAIN chunks'
                 /\ check_collision(chunks', CentreOf(e.position))
                       = check_collision(chunks, CentreOf(e.position))]_vars

\* C11 witness: a tick despawned entities whose coordinates are all still
\* resident and no longer rendered.
C11_Witness ==
    /\ program = "main.rs"
    /\ tick.ran
    /\ tick.despawned # EmptyBag
    /\ \A e \in DOMAIN tick.despawned :
          e.position \in DOMAIN chunks /\ e \notin DOMAIN entities

\* C12: the player chunk of a streaming tick is floor(position / CHUNK_SIZE)
\* on each axis, in main.rs and in f.rs.  The state is the one right after
\* the tick, the movement system of that frame still to run, so translation
\* is the position the tick read.
C12_PlayerChunkIsFloor ==
    (tick.ran /\ pending = {"player_movement"})
        => \A i \in 1..3 :
              /\ tick.player_chunk[i] * CHUNK_SIZE * Scale <= translation[i]
              /\ translation[i] < (tick.player_chunk[i] + 1) * CHUNK_SIZE * Scale

\* C13: every render entity of a chunk with coordinate c is placed at
\* (c.x * CHUNK_SIZE, c.y * CHUNK_SIZE, c.z * CHUNK_SIZE), in main.rs and in
\* f.rs.
C13_TransformIsScaledCoordinate ==
    \A e \in DOMAIN entities :
        \A i \in 1..3 : e.transform[i] = I32AsF32(e.position[i] * CHUNK_SIZE)

\* C14: main.rs, every coordinate with a rendered Chunk entity has a grid
\* resident in WorldMap.chunks, so check_collision finds a chunk for a point
\* of every rendered chunk.
C14_RenderedAreResident ==
    program = "main.rs"
        => \A e \in DOMAIN entities :
              /\ e.position \in DOMAIN chunks
              /\ ChunkOfPoint(CentreOf(e.position)) \in DOMAIN chunks

\* C14 witness: after a tick that spawned and a later one that despawned,
\* entities are rendered and the store holds more coordinates than are
\* rendered.
C14_Witness ==
    /\ program = "main.rs"
    /\ tick.ran
    /\ entities # EmptyBag
    /\ RenderedCoords(entities) # DOMAIN chunks
    /\ RenderedCoords(entities) \subseteq DOMAIN chunks

\* The number of rendered entities whose Chunk.position is c
RenderedAt(ents, c) ==
    BagSize([e \in {x \in DOMAIN ents : x.position = c} |-> ents[e]])

\* C15: at most one rendered Chunk entity exists for each chunk coordinate,
\* in main.rs and in f.rs: no entity is rendered twice, and there are as many
\* rendered coordinates as rendered entities.
C15_OneEntityPerCoordinate ==
    /\ \A e \in DOMAIN entities : entities[e] = 1
    /\ Cardinality(RenderedCoords(entities)) = Cardinality(DOMAIN entities)

\* C15 witness: a tick whose spawn loop visited a coordinate that was
\* already rendered, and spawned others; the coordinate has one entity.
C15_Witness ==
    /\ tick.ran
    /\ tick.spawned # EmptyBag
    /\ \E e \in DOMAIN tick.before :
          /\ e.position \in (IF program = "main.rs"
                               THEN Desired(tick.player_chunk, RENDER_DISTANCE)
                               ELSE {VecAdd(tick.player_chunk, <<x, 0, z>>) :
                                        x \in -WORLD_SIZE..WORLD_SIZE,
                                        z \in -WORLD_SIZE..WORLD_SIZE})
          /\ RenderedAt(entities, e.position) = 1

\* C16: f.rs, no two rendered Chunk entities are placed at the same world
\* translation.
C16_DistinctTranslations ==
    program = "f.rs"
        => /\ \A e \in DOMAIN entities : entities[e] = 1
           /\ \A e1 \in DOMAIN entities, e2 \in DOMAIN entities :
                 e1.transform = e2.transform => e1 = e2

\* C17: main.rs, the observer starting outside solid terrain and every
\* candidate displacement so far shorter than one chunk per axis, at the end
\* of every frame, in either order of the two systems, check_collision of the
\* observer's position is false.
C17_NeverInsideSolid ==
    (program = "main.rs" /\ frame >= 1 /\ pending = Systems /\ ~crashed
        /\ move.ran /\ move.under_chunk)
        => check_collision(chunks, translation) = "false"

\* World points probed around the surface: x the smallest negative f32 of
\* the model, -0.5, -1.0 and 4.0; y 30.0, 35.5 and 50.0; z 0.0 and -1.0
SurfacePoints ==
    {<<x, y, z>> : x \in {-1, -(Scale \div 2), -I32AsF32(1), I32AsF32(4)},
                   y \in {I32AsF32(30), I32AsF32(35) + (Scale \div 2), I32AsF32(50)},
                   z \in {0, -I32AsF32(1)}}

\* C18: main.rs, for every world point p whose chunk is resident,
\* check_collision(p) is true exactly when
\* floor(p.y) < height(floor(p.x), floor(p.z)).
C18_QueryAgreesWithTerrain ==
    program = "main.rs"
        => \A p \in SurfacePoints :
              ChunkOfPoint(p) \in DOMAIN chunks
                 => ((check_collision(chunks, p) = "true")
                        <=> (Floor(p[2]) < height(Floor(p[1]), Floor(p[3]))))

====
